---- MODULE Spec2Model ----
(***************************************************************************)
(* A model of the KernelBench generation harness: run and run_multiturn    *)
(* (src/src/run.py), and the response and dataset helpers they call        *)
(* (src/src/utils.py).                                                     *)
(*                                                                         *)
(* Text is a sequence of one-character strings.  A Python value that may   *)
(* be None (or a local that may be unbound) is a sequence of length at     *)
(* most one: NoneV is <<>>, Some(x) is <<x>>.                              *)
(***************************************************************************)
EXTENDS Integers, Sequences, FiniteSets, TLC

VARIABLES
    fn,                 \* the entry point being executed
    pc,                 \* the position in it
    turns,              \* run_multiturn's parameter
    turn,               \* the loop index of run_multiturn
    custom_cuda,        \* the most recently generated kernel source
    kernel_exec_result, \* run's local: unbound until the evaluator returns
    metadata,           \* run's local, then run_multiturn's
    metadata_of,        \* history: the turn of the evaluation metadata was set for
    result,             \* run_multiturn's current result
    best_custom_cuda,
    best_result,
    best_metadata,
    ret,                \* the value returned
    exc,                \* the exception that ended the call
    anyEval,            \* whether the evaluator is left unconstrained
    log,                \* history: every request, evaluation and loop head
    output_string,      \* extract_first_code's and the helpers' inputs
    code_language_type,
    listing,
    cmp_best,
    cmp_new,
    out                 \* the pure function's answer

vars == <<fn, pc, turns, turn, custom_cuda, kernel_exec_result, metadata, metadata_of, result,
          best_custom_cuda, best_result, best_metadata, ret, exc, anyEval, log,
          output_string, code_language_type, listing, cmp_best, cmp_new, out>>

\* ---------------------------------------------------------------- bounds

MaxTurns == 3
MaxLen == 8
MaxListing == 4

\* ---------------------------------------------------------------- values

NoneV == <<>>
Some(x) == <<x>>
IsNone(o) == o = <<>>
Get(o) == o[1]

\* The backtick character is written "^" here.
T == "^"
W == " "
Fence == <<T, T, T>>
Python == <<"p", "y">>

RECURSIVE SeqsUpTo(_, _)
SeqsUpTo(S, n) ==
    IF n = 0 THEN {<<>>}
    ELSE LET shorter == SeqsUpTo(S, n - 1)
         IN  shorter \cup {Append(s, c) : s \in {x \in shorter : Len(x) = n - 1}, c \in S}

\* ------------------------------------------------- text (src/src/utils.py)

IsSpace(c) == c = W

\* str.strip(): the text without its leading and trailing whitespace.
strip(s) ==
    LET keep == {i \in 1..Len(s) : ~IsSpace(s[i])}
    IN  IF keep = {} THEN <<>>
        ELSE LET lo == CHOOSE i \in keep : \A k \in keep : i <= k
                 hi == CHOOSE i \in keep : \A k \in keep : k <= i
             IN  SubSeq(s, lo, hi)

startswith(s, p) == Len(p) <= Len(s) /\ SubSeq(s, 1, Len(p)) = p

endswith(s, p) == Len(p) <= Len(s) /\ SubSeq(s, Len(s) - Len(p) + 1, Len(s)) = p

FenceAt(s, i) == i + 2 <= Len(s) /\ SubSeq(s, i, i + 2) = Fence

\* re.search(r"```(.*?)```", s, re.DOTALL): the leftmost opening fence that
\* has a closing fence after it, and the nearest such closing fence; the
\* answer is group(1), or None without a match.
re_search(s) ==
    LET matches == {m \in (1..Len(s)) \X (1..Len(s)) :
                       FenceAt(s, m[1]) /\ m[2] >= m[1] + 3 /\ FenceAt(s, m[2])}
    IN  IF matches = {} THEN NoneV
        ELSE LET i == CHOOSE a \in {m[1] : m \in matches} :
                          \A m \in matches : a <= m[1]
                 j == CHOOSE b \in {m[2] : m \in {x \in matches : x[1] = i}} :
                          \A m \in {x \in matches : x[1] = i} : b <= m[2]
             IN  Some(SubSeq(s, i + 3, j - 1))

remove_code_block_header(code, lang) ==
    IF startswith(code, lang)
    THEN strip(SubSeq(code, Len(lang) + 1, Len(code)))
    ELSE code

extract_first_code(s, lang) ==
    LET trimmed == strip(s)
        code_match == re_search(trimmed)
    IN  IF ~IsNone(code_match)
        THEN Some(remove_code_block_header(strip(Get(code_match)), lang))
        ELSE NoneV

\* ---------------------------------------------- dataset (src/src/utils.py)

DotPy == <<".", "p", "y">>
Slash == "/"
ProblemDir == <<"d">>
Digits == <<"0", "1", "2", "3", "4", "5", "6", "7", "8", "9">>

\* os.path.join(problem_dir, file_name)
path_join(dir, name) == dir \o <<Slash>> \o name

\* os.path.basename(path): what follows the last slash.
basename(path) ==
    LET slashes == {i \in 1..Len(path) : path[i] = Slash}
    IN  IF slashes = {} THEN path
        ELSE LET last == CHOOSE i \in slashes : \A k \in slashes : k <= i
             IN  SubSeq(path, last + 1, Len(path))

\* name.split('_')[0]: the text before the first underscore, or all of it.
split_first(name) ==
    LET us == {i \in 1..Len(name) : name[i] = "_"}
    IN  IF us = {} THEN name
        ELSE LET first == CHOOSE i \in us : \A k \in us : i <= k
             IN  SubSeq(name, 1, first - 1)

IsDigit(c) == \E d \in 1..10 : Digits[d] = c

DigitVal(c) == (CHOOSE d \in 1..10 : Digits[d] = c) - 1

\* int(text) of a text of decimal digits; any other text of the file names
\* modelled here makes int raise ValueError (IntOk is FALSE).
IntOk(s) == Len(s) > 0 /\ \A i \in 1..Len(s) : IsDigit(s[i])

RECURSIVE IntOf(_)
IntOf(s) ==
    IF Len(s) = 0 THEN 0
    ELSE 10 * IntOf(SubSeq(s, 1, Len(s) - 1)) + DigitVal(s[Len(s)])

\* The sort key of line 249.
PrefixText(path) == split_first(basename(path))

SortKey(path) == IntOf(PrefixText(path))

\* list.sort(key=...) is stable: an element goes after every element whose
\* key is not greater.
InsertByKey(sorted, x) ==
    LET before == {i \in 1..Len(sorted) : SortKey(sorted[i]) <= SortKey(x)}
        n == IF before = {} THEN 0
             ELSE CHOOSE i \in before : \A k \in before : k <= i
    IN  SubSeq(sorted, 1, n) \o <<x>> \o SubSeq(sorted, n + 1, Len(sorted))

RECURSIVE SortFrom(_, _)
SortFrom(sorted, rest) ==
    IF rest = <<>> THEN sorted
    ELSE SortFrom(InsertByKey(sorted, Head(rest)), Tail(rest))

Unsorted(ds) == ds

SortByPrefix(ds) == SortFrom(<<>>, ds)

IsPy(name) == endswith(name, DotPy)

\* Lines 239-246: the paths of the .py entries, in listing order.
CollectPy(names) ==
    LET py == SelectSeq(names, IsPy)
    IN  [i \in 1..Len(py) |-> path_join(ProblemDir, py[i])]

\* The whole function: <<"ok", DATASET>>, or <<"raise", "ValueError">> when
\* int() rejects a prefix while the sort computes its keys.
construct_problem_dataset_from_problem_dir(names) ==
    LET DATASET == CollectPy(names)
    IN  IF \E i \in 1..Len(DATASET) : ~IntOk(PrefixText(DATASET[i]))
        THEN <<"raise", "ValueError">>
        ELSE <<"ok", SortByPrefix(DATASET)>>

\* ------------------------------------------------ collaborators of run.py

\* KernelExecResult: the two flags and the optional performance data.
Runtimes == {"none", "fast", "slow"}

Results == [compiled : BOOLEAN, correctness : BOOLEAN, runtime : Runtimes]

SaneResult(r) == r.correctness => r.compiled

\* What eval_kernel_against_ref(..., measure_performance=False) may return:
\* a result without performance data whose flags obey the data model, or,
\* with the evaluator left unconstrained, any pair of flags.
EvalReturns(any) ==
    {r \in Results : r.runtime = "none" /\ (any \/ SaneResult(r))}

\* The exceptions the evaluator may raise, and str(e).
EvalErrors ==
    {[type |-> "RuntimeError", msg |-> <<"e", "1">>],
     [type |-> "RuntimeError", msg |-> <<"e", "2">>]}

str(e) == e.msg

\* What the LLM may answer: a tagged block, an untagged block inside
\* whitespace, and an answer without any block.
Responses ==
    {Fence \o Python \o <<W, "a">> \o Fence,
     <<W>> \o Fence \o <<"b">> \o Fence \o <<W>>,
     <<"a", W, "b">>}

LLMError == [type |-> "APIError", msg |-> <<"l">>]
AssertionError == [type |-> "AssertionError", msg |-> <<"g">>]
UnboundLocalError == [type |-> "UnboundLocalError", msg |-> <<"u">>]

\* ------------------------------------------------------ history (ghost)

Event(ev, t, kind, src, md, code, res, err) ==
    [ev |-> ev, turn |-> t, kind |-> kind, src |-> src, metadata |-> md,
     code |-> code, res |-> res, err |-> err]

LlmEvent(t, kind, src, md, code) == Event("llm", t, kind, src, md, code, NoneV, NoneV)
LlmRaised(t, kind, src, md) == Event("llm", t, kind, src, md, NoneV, NoneV, Some(LLMError))
EvalEvent(t, src, res, err) == Event("eval", t, "eval", src, NoneV, NoneV, res, err)
HeadEvent(t, res) == Event("head", t, "head", NoneV, NoneV, NoneV, res, NoneV)

\* ------------------------------------------------------- src/src/run.py

\* compare_results with ">=" in place of ">" on correctness: a tie replaces.
compare_results_tie(best, new) ==
    IF IsNone(best) THEN TRUE
    ELSE IF new.compiled /\ ~Get(best).compiled THEN TRUE
    ELSE IF new.correctness THEN TRUE
    ELSE FALSE

\* compare_results without its correctness test.
compare_results_compiled_only(best, new) ==
    IF IsNone(best) THEN TRUE
    ELSE IF new.compiled /\ ~Get(best).compiled THEN TRUE
    ELSE FALSE

\* compare_results: True, or None (falsy) when no test fires.
compare_results(best, new) ==
    IF IsNone(best) THEN TRUE
    ELSE IF new.compiled /\ ~Get(best).compiled THEN TRUE
    ELSE IF new.correctness /\ ~Get(best).correctness THEN TRUE
    ELSE FALSE

\* TurnKind with the two tests in the other order.
TurnKind_correctness_first(r) ==
    IF ~r.correctness THEN "fix_correctness"
    ELSE IF ~r.compiled THEN "fix_compile"
    ELSE "none"

\* The branch a loop iteration takes (lines 76, 81, 85).
TurnKind(r) ==
    IF ~r.compiled THEN "fix_compile"
    ELSE IF ~r.correctness THEN "fix_correctness"
    ELSE "none"

\* range(turns + 1): one iteration too many.
LoopContinues_off_by_one(t, n) == t <= n

\* for turn in range(turns)
LoopContinues(t, n) == t < n

\* NewBest taking over only the correctness flag of the new result.
NewBest_correctness_only(best, best_cuda, new, cuda) ==
    IF compare_results(best, Get(new))
    THEN <<IF IsNone(best) THEN new
           ELSE Some([Get(best) EXCEPT !.correctness = Get(new).correctness]), cuda>>
    ELSE <<best, best_cuda>>

\* NewBest without line 92: the best source is not replaced with the result.
NewBest_result_only(best, best_cuda, new, cuda) ==
    IF compare_results(best, Get(new))
    THEN <<new, best_cuda>>
    ELSE <<best, best_cuda>>

\* Lines 90-92: the best result and its source after the comparison.
NewBest(best, best_cuda, new, cuda) ==
    IF compare_results(best, Get(new))
    THEN <<new, cuda>>
    ELSE <<best, best_cuda>>

pureVars == <<output_string, code_language_type, listing, cmp_best, cmp_new, out>>

Init0 ==
    /\ fn \in {"run", "run_multiturn"}
    /\ turns \in (IF fn = "run" THEN {0} ELSE 0..MaxTurns)
    /\ pc = "generate"
    /\ turn = 0
    /\ custom_cuda = NoneV
    /\ kernel_exec_result = NoneV
    /\ metadata = NoneV
    /\ metadata_of = NoneV
    /\ result = NoneV
    /\ best_custom_cuda = NoneV
    /\ best_result = NoneV
    /\ best_metadata = NoneV
    /\ ret = NoneV
    /\ exc = NoneV
    /\ log = <<>>
    /\ output_string = <<>>
    /\ code_language_type = <<>>
    /\ listing = <<>>
    /\ cmp_best = NoneV
    /\ cmp_new = NoneV
    /\ out = NoneV

Init == Init0 /\ anyEval = FALSE

InitAnyEval == Init0 /\ anyEval = TRUE

\* run, lines 43-45: the prompt, the request, the extraction.
RunGenerate ==
    /\ pc = "generate"
    /\ \E r \in Responses :
          /\ custom_cuda' = extract_first_code(r, Python)
          /\ log' = Append(log, LlmEvent(-1, "generate", NoneV, NoneV, custom_cuda'))
    /\ pc' = "assert"
    /\ UNCHANGED <<fn, turns, turn, kernel_exec_result, metadata, metadata_of, result,
                   best_custom_cuda, best_result, best_metadata, ret, exc, anyEval>>
    /\ UNCHANGED pureVars

\* run, lines 48-52: the assertion, the write of the source, metadata = None.
RunAssert ==
    /\ pc = "assert"
    /\ IF IsNone(custom_cuda)
       THEN pc' = "raised" /\ exc' = Some(AssertionError)
            /\ UNCHANGED <<metadata, metadata_of>>
       ELSE pc' = "eval" /\ metadata' = NoneV /\ metadata_of' = Some(-1)
            /\ UNCHANGED exc
    /\ UNCHANGED <<fn, turns, turn, custom_cuda, kernel_exec_result, result,
                   best_custom_cuda, best_result, best_metadata, ret, anyEval, log>>
    /\ UNCHANGED pureVars

\* run, lines 53-56: the evaluation returns, or raises and is caught.
RunEval ==
    /\ pc = "eval"
    /\ \/ \E r \in EvalReturns(anyEval) :
             /\ kernel_exec_result' = Some(r)
             /\ log' = Append(log, EvalEvent(-1, custom_cuda, Some(r), NoneV))
             /\ UNCHANGED <<metadata, metadata_of>>
       \/ \E e \in EvalErrors :
             /\ metadata' = Some(str(e))
             /\ metadata_of' = Some(-1)
             /\ log' = Append(log, EvalEvent(-1, custom_cuda, NoneV, Some(e)))
             /\ UNCHANGED kernel_exec_result
    /\ pc' = "return"
    /\ UNCHANGED <<fn, turns, turn, custom_cuda, result, best_custom_cuda,
                   best_result, best_metadata, ret, exc, anyEval>>
    /\ UNCHANGED pureVars

\* run, line 57: the return reads kernel_exec_result, which is unbound when
\* the evaluation raised; run_multiturn, lines 70-73, takes the triple.
RunReturn ==
    /\ pc = "return"
    /\ IF IsNone(kernel_exec_result)
       THEN /\ pc' = "raised"
            /\ exc' = Some(UnboundLocalError)
            /\ UNCHANGED <<result, best_custom_cuda, best_result, best_metadata, ret>>
       ELSE IF fn = "run"
       THEN /\ pc' = "done"
            /\ ret' = Some(<<custom_cuda, kernel_exec_result, metadata>>)
            /\ UNCHANGED <<result, best_custom_cuda, best_result, best_metadata, exc>>
       ELSE /\ pc' = "loop"
            /\ result' = kernel_exec_result
            /\ best_custom_cuda' = custom_cuda
            /\ best_result' = kernel_exec_result
            /\ best_metadata' = metadata
            /\ UNCHANGED <<ret, exc>>
    /\ UNCHANGED <<fn, turns, turn, custom_cuda, kernel_exec_result, metadata, metadata_of,
                   anyEval, log>>
    /\ UNCHANGED pureVars

\* run_multiturn, lines 76-79 and 81-83: the fix request for a failing result.
TurnFix ==
    /\ pc = "loop"
    /\ LoopContinues(turn, turns)
    /\ TurnKind(Get(result)) # "none"
    /\ \E r \in Responses :
          /\ custom_cuda' = extract_first_code(r, Python)
          /\ log' = log \o <<HeadEvent(turn, result),
                             LlmEvent(turn, TurnKind(Get(result)), custom_cuda,
                                      metadata, custom_cuda')>>
    /\ pc' = "turn_eval"
    /\ UNCHANGED <<fn, turns, turn, kernel_exec_result, metadata, metadata_of, result,
                   best_custom_cuda, best_result, best_metadata, ret, exc, anyEval>>
    /\ UNCHANGED pureVars

\* run_multiturn, lines 80 and 84, then 90-92: the evaluation of the new
\* source, whatever the extraction gave, and the comparison; an exception
\* of the evaluator is not caught here.
TurnEval ==
    /\ pc = "turn_eval"
    /\ \/ \E r \in EvalReturns(anyEval) :
             LET nb == NewBest(best_result, best_custom_cuda, Some(r), custom_cuda)
             IN  /\ result' = Some(r)
                 /\ best_result' = nb[1]
                 /\ best_custom_cuda' = nb[2]
                 /\ log' = Append(log, EvalEvent(turn, custom_cuda, Some(r), NoneV))
                 /\ turn' = turn + 1
                 /\ pc' = "loop"
                 /\ UNCHANGED exc
       \/ \E e \in EvalErrors :
             /\ pc' = "raised"
             /\ exc' = Some(e)
             /\ log' = Append(log, EvalEvent(turn, custom_cuda, NoneV, Some(e)))
             /\ UNCHANGED <<result, best_result, best_custom_cuda, turn>>
    /\ UNCHANGED <<fn, turns, custom_cuda, kernel_exec_result, metadata, metadata_of,
                   best_metadata, ret, anyEval>>
    /\ UNCHANGED pureVars

\* run_multiturn, lines 85-92: nothing is requested for a compiled and
\* correct result; the comparison still runs.
TurnNoop ==
    /\ pc = "loop"
    /\ LoopContinues(turn, turns)
    /\ TurnKind(Get(result)) = "none"
    /\ LET nb == NewBest(best_result, best_custom_cuda, result, custom_cuda)
       IN  /\ best_result' = nb[1]
           /\ best_custom_cuda' = nb[2]
    /\ log' = Append(log, HeadEvent(turn, result))
    /\ turn' = turn + 1
    /\ UNCHANGED <<fn, pc, turns, custom_cuda, kernel_exec_result, metadata, metadata_of, result,
                   best_metadata, ret, exc, anyEval>>
    /\ UNCHANGED pureVars

\* run_multiturn, line 94.
Return ==
    /\ pc = "loop"
    /\ ~LoopContinues(turn, turns)
    /\ pc' = "done"
    /\ ret' = Some(<<best_custom_cuda, best_result>>)
    /\ UNCHANGED <<fn, turns, turn, custom_cuda, kernel_exec_result, metadata, metadata_of, result,
                   best_custom_cuda, best_result, best_metadata, exc, anyEval, log>>
    /\ UNCHANGED pureVars

\* run_llm, lines 28-33: the request to the provider may raise, in run and
\* in a fixing turn alike; nothing catches it.
LLMRaises ==
    /\ \/ pc = "generate" /\ log' = Append(log, LlmRaised(-1, "generate", NoneV, NoneV))
       \/ /\ pc = "loop"
          /\ LoopContinues(turn, turns)
          /\ TurnKind(Get(result)) # "none"
          /\ log' = log \o <<HeadEvent(turn, result),
                             LlmRaised(turn, TurnKind(Get(result)), custom_cuda, metadata)>>
    /\ pc' = "raised"
    /\ exc' = Some(LLMError)
    /\ UNCHANGED <<fn, turns, turn, custom_cuda, kernel_exec_result, metadata, metadata_of, result,
                   best_custom_cuda, best_result, best_metadata, ret, anyEval>>
    /\ UNCHANGED pureVars

Next ==
    \/ RunGenerate
    \/ RunAssert
    \/ RunEval
    \/ RunReturn
    \/ TurnFix
    \/ TurnEval
    \/ TurnNoop
    \/ Return
    \/ LLMRaises

Spec == Init /\ [][Next]_vars

SpecAnyEval == InitAnyEval /\ [][Next]_vars

\* -------------------------------------------- the helpers, called alone

Alphabet == {T, W, "p", "y"}

Langs == {Python, <<"p">>}

\* The directory entries os.listdir may give, in any order, each once.
FileNames ==
    {<<"2", "_", "a", ".", "p", "y">>,
     <<"1", "0", "_", "b", ".", "p", "y">>,
     <<"2", "_", "c", ".", "p", "y">>,
     <<"0", "3", "_", "d", ".", "p", "y">>,
     <<"1", "_", "r", ".", "t", "x", "t">>,
     <<"_", "_", "i", ".", "p", "y">>}

Listings ==
    {l \in SeqsUpTo(FileNames, MaxListing) :
        \A i, j \in 1..Len(l) : i # j => l[i] # l[j]}

runVars == <<turns, turn, custom_cuda, kernel_exec_result, metadata, metadata_of, result,
             best_custom_cuda, best_result, best_metadata, ret, exc, anyEval, log>>

InitPure ==
    /\ pc = "call"
    /\ turns = 0
    /\ turn = 0
    /\ custom_cuda = NoneV
    /\ kernel_exec_result = NoneV
    /\ metadata = NoneV
    /\ metadata_of = NoneV
    /\ result = NoneV
    /\ best_custom_cuda = NoneV
    /\ best_result = NoneV
    /\ best_metadata = NoneV
    /\ ret = NoneV
    /\ exc = NoneV
    /\ log = <<>>
    /\ anyEval = FALSE
    /\ out = NoneV
    /\ fn \in {"extract_first_code", "construct_problem_dataset_from_problem_dir",
               "compare_results"}
    /\ output_string \in (IF fn = "extract_first_code"
                          THEN SeqsUpTo(Alphabet, MaxLen) ELSE {<<>>})
    /\ code_language_type \in (IF fn = "extract_first_code" THEN Langs ELSE {<<>>})
    /\ listing \in (IF fn = "construct_problem_dataset_from_problem_dir"
                    THEN Listings ELSE {<<>>})
    /\ cmp_best \in (IF fn = "compare_results"
                     THEN {NoneV} \cup {Some(r) : r \in {x \in Results : SaneResult(x)}}
                     ELSE {NoneV})
    /\ cmp_new \in (IF fn = "compare_results"
                    THEN {Some(r) : r \in {x \in Results : SaneResult(x)}}
                    ELSE {NoneV})

CallExtract ==
    /\ pc = "call"
    /\ fn = "extract_first_code"
    /\ out' = Some(extract_first_code(output_string, code_language_type))
    /\ pc' = "done"
    /\ UNCHANGED <<fn, output_string, code_language_type, listing, cmp_best, cmp_new>>
    /\ UNCHANGED runVars

CallDataset ==
    /\ pc = "call"
    /\ fn = "construct_problem_dataset_from_problem_dir"
    /\ out' = Some(construct_problem_dataset_from_problem_dir(listing))
    /\ pc' = "done"
    /\ UNCHANGED <<fn, output_string, code_language_type, listing, cmp_best, cmp_new>>
    /\ UNCHANGED runVars

CallCompare ==
    /\ pc = "call"
    /\ fn = "compare_results"
    /\ out' = Some(compare_results(cmp_best, Get(cmp_new)))
    /\ pc' = "done"
    /\ UNCHANGED <<fn, output_string, code_language_type, listing, cmp_best, cmp_new>>
    /\ UNCHANGED runVars

NextPure ==
    \/ CallExtract
    \/ CallDataset
    \/ CallCompare

SpecPure == InitPure /\ [][NextPure]_vars

\* ------------------------------------------------------------- properties

EventsAt(ev, t) == SelectSeq(log, LAMBDA e : e.ev = ev /\ e.turn = t)

NumEvents(ev) == Cardinality({i \in 1..Len(log) : log[i].ev = ev})

\* The result of the latest evaluation that returned before position i.
LastResultBefore(i) ==
    LET returned == {k \in 1..(i - 1) : log[k].ev = "eval" /\ ~IsNone(log[k].res)}
    IN  IF returned = {} THEN NoneV
        ELSE log[CHOOSE k \in returned : \A m \in returned : m <= k].res

Terminal == {"done", "raised"}

\* C1: every loop iteration of run_multiturn acts on the most recent result
\* alone: for a result that is not compiled it issues exactly one compile-fix
\* request and evaluates the code extracted from the answer; for a compiled
\* but incorrect result exactly one correctness-fix request, likewise; for a
\* compiled and correct result no request and no evaluation.
C1_TurnActsOnCurrentResult ==
    \A i \in 1..Len(log) :
        log[i].ev = "head" =>
            LET t == log[i].turn
                r == Get(log[i].res)
                L == EventsAt("llm", t)
                E == EventsAt("eval", t)
                want == IF ~r.compiled THEN "fix_compile" ELSE "fix_correctness"
            IN  /\ log[i].res = LastResultBefore(i)
                /\ Len(EventsAt("head", t)) = 1
                /\ IF r.compiled /\ r.correctness
                   THEN L = <<>> /\ E = <<>>
                   ELSE /\ Len(L) = 1
                        /\ L[1].kind = want
                        /\ Len(E) <= 1
                        /\ (t < turn => Len(E) = 1)
                        /\ (Len(E) = 1 => IsNone(L[1].err) /\ E[1].src = L[1].code)

C1_Witness ==
    /\ fn = "run_multiturn"
    /\ pc = "done"
    /\ \E i \in 1..Len(log) : log[i].ev = "llm" /\ log[i].kind = "fix_compile"
    /\ \E i \in 1..Len(log) : log[i].ev = "llm" /\ log[i].kind = "fix_correctness"
    /\ \E i \in 1..Len(log) :
          log[i].ev = "head" /\ Get(log[i].res).compiled /\ Get(log[i].res).correctness

\* The order of the spec: compiled beats not compiled, then correct beats
\* not correct.
LexBetter(new, best) ==
    \/ new.compiled /\ ~best.compiled
    \/ new.compiled = best.compiled /\ new.correctness /\ ~best.correctness

Rank(r) == IF ~r.compiled THEN 0 ELSE IF ~r.correctness THEN 1 ELSE 2

Produced == {log[i].res : i \in {k \in 1..Len(log) :
                                    log[k].ev = "eval" /\ ~IsNone(log[k].res)}}

NoCallRaised == \A i \in 1..Len(log) : IsNone(log[i].err)

FirstExtractionGaveCode ==
    \E i \in 1..Len(log) :
        log[i].ev = "llm" /\ log[i].kind = "generate" /\ ~IsNone(log[i].code)

LoopCounts ==
    /\ turn <= turns
    /\ NumEvents("head") <= turns
    /\ NumEvents("llm") <= turns + 1
    /\ NumEvents("eval") <= turns + 1

\* C4 as stated: whenever every LLM call and every evaluation returned,
\* run_multiturn ends by returning after exactly `turns` iterations, within
\* turns+1 requests and turns+1 evaluations.
C4_AsStated ==
    fn = "run_multiturn" =>
        /\ LoopCounts
        /\ (pc \in Terminal /\ NoCallRaised) => (pc = "done" /\ NumEvents("head") = turns)

\* C4, amended: the same, for the calls in which the first answer held a
\* code block (otherwise run's assertion ends the call before the loop); and
\* a call that has not ended can always take a step.
C4_LoopBoundedByTurns ==
    fn = "run_multiturn" =>
        /\ LoopCounts
        /\ (pc \in Terminal /\ NoCallRaised /\ FirstExtractionGaveCode) =>
               (pc = "done" /\ NumEvents("head") = turns /\ turn = turns)
        /\ (pc = "done" => NumEvents("head") = turns)
        /\ (pc \notin Terminal => ENABLED Next)

C4_Witness ==
    /\ fn = "run_multiturn"
    /\ pc = "done"
    /\ turns >= 2
    /\ ~Get(result).correctness
    /\ NumEvents("eval") = turns + 1
    /\ NumEvents("llm") = turns + 1

RunEvalEvents == EventsAt("eval", -1)

\* C5: when the evaluation called by run raises, run still returns its
\* triple and the metadata is the stringified error; when the evaluation
\* returns, the metadata is None.
C5_RunReturnsErrorAsMetadata ==
    (fn = "run" /\ pc \in Terminal /\ RunEvalEvents # <<>>) =>
        /\ pc = "done"
        /\ Get(ret)[1] = custom_cuda
        /\ Get(ret)[3] = (IF IsNone(RunEvalEvents[1].err) THEN NoneV
                          ELSE Some(str(Get(RunEvalEvents[1].err))))

\* What does hold in run: the error is caught and stringified into
\* metadata before the return statement is reached.
C5_ErrorIsStringified ==
    (pc = "return" /\ ~IsNone(RunEvalEvents[1].err)) =>
        metadata = Some(str(Get(RunEvalEvents[1].err)))

TurnEvalRaised ==
    \E i \in 1..Len(log) : log[i].ev = "eval" /\ log[i].turn >= 0 /\ ~IsNone(log[i].err)

\* C6: an error raised by the evaluation in a fixing turn does not end
\* run_multiturn with an exception: the call still returns its pair.
C6_TurnEvalErrorIsCaught ==
    (fn = "run_multiturn" /\ TurnEvalRaised /\ pc \in Terminal) =>
        (pc = "done" /\ ~IsNone(ret))

\* The results run and run_multiturn hold or return.
HeldResults ==
    {h \in {kernel_exec_result, result, best_result} : ~IsNone(h)}
    \cup (IF IsNone(ret) THEN {} ELSE {Get(ret)[2]})

\* C7 as stated: with nothing assumed of the evaluator, every result held
\* or returned has correctness = true only if compiled = true.
C7_AsStated == \A h \in HeldResults : SaneResult(Get(h))

\* C7, amended: every result held or returned is, unchanged, a result the
\* evaluator returned during the call; so it has correctness => compiled
\* whenever every result of the evaluator has.
C7_HeldResultsAreEvaluatorResults ==
    \A h \in HeldResults :
        /\ h \in Produced
        /\ (\A p \in Produced : SaneResult(Get(p))) => SaneResult(Get(h))

C7_Witness ==
    /\ fn = "run_multiturn"
    /\ pc = "done"
    /\ anyEval
    /\ Cardinality(Produced) >= 3
    /\ \A p \in Produced : SaneResult(Get(p))
    /\ Get(best_result).correctness
    /\ Get(Get(ret)[2]).compiled

\* C10: the evaluator is never called with an absent source.
C10_EvaluatorNeverGetsNone ==
    \A i \in 1..Len(log) : log[i].ev = "eval" => ~IsNone(log[i].src)

\* What does hold: run never evaluates an absent source, its assertion
\* stops it first.
C10_RunNeverEvaluatesNone ==
    \A i \in 1..Len(log) :
        (log[i].ev = "eval" /\ log[i].turn = -1) => ~IsNone(log[i].src)

PyPaths(names) == {path_join(ProblemDir, names[i]) : i \in {k \in 1..Len(names) : IsPy(names[k])}}

\* ds holds exactly the paths of the .py entries, each once.
ExactlyPy(ds, names) ==
    /\ {ds[i] : i \in 1..Len(ds)} = PyPaths(names)
    /\ Len(ds) = Cardinality(PyPaths(names))

NonDecreasing(ds) ==
    \A i, j \in 1..Len(ds) :
        i < j => IntOf(PrefixText(ds[i])) <= IntOf(PrefixText(ds[j]))

\* Entries with equal prefix values keep the order of the listing.
TiesInListingOrder(ds, names) ==
    LET paths == [i \in 1..Len(names) |-> path_join(ProblemDir, names[i])]
        pos(x) == CHOOSE i \in 1..Len(paths) : paths[i] = x
    IN  \A i, j \in 1..Len(ds) :
            (i < j /\ IntOf(PrefixText(ds[i])) = IntOf(PrefixText(ds[j])))
                => pos(ds[i]) < pos(ds[j])

Reorderings(names) ==
    {l \in Listings :
        Len(l) = Len(names) /\ {l[i] : i \in 1..Len(l)} = {names[i] : i \in 1..Len(names)}}

AllPrefixesInt(names) ==
    \A i \in 1..Len(names) : IsPy(names[i]) => IntOk(split_first(names[i]))

DistinctPrefixValues(names) ==
    \A i, j \in 1..Len(names) :
        (i # j /\ IsPy(names[i]) /\ IsPy(names[j]))
            => IntOf(split_first(names[i])) # IntOf(split_first(names[j]))

DatasetDone == fn = "construct_problem_dataset_from_problem_dir" /\ pc = "done"

\* C8 as stated: for any listing the function returns exactly the .py
\* paths, non-decreasing by the integer prefix, and the same list for every
\* order in which the directory may be listed.
C8_AsStated ==
    DatasetDone =>
        /\ Get(out)[1] = "ok"
        /\ ExactlyPy(Get(out)[2], listing)
        /\ NonDecreasing(Get(out)[2])
        /\ \A l \in Reorderings(listing) :
               construct_problem_dataset_from_problem_dir(l) = Get(out)

\* C8, amended: when int() accepts the prefix of every .py entry, the
\* function returns exactly the .py paths, non-decreasing by the integer
\* prefix, entries of equal prefix value in listing order; the list is the
\* same for every listing order when the prefix values are distinct.  When
\* int() rejects a prefix, the function raises ValueError.
C8_SortedByIntegerPrefix ==
    DatasetDone =>
        IF AllPrefixesInt(listing)
        THEN /\ Get(out)[1] = "ok"
             /\ ExactlyPy(Get(out)[2], listing)
             /\ NonDecreasing(Get(out)[2])
             /\ TiesInListingOrder(Get(out)[2], listing)
             /\ DistinctPrefixValues(listing) =>
                    \A l \in Reorderings(listing) :
                        construct_problem_dataset_from_problem_dir(l) = Get(out)
        ELSE Get(out) = <<"raise", "ValueError">>

C8_Witness ==
    /\ DatasetDone
    /\ listing = <<<<"1", "0", "_", "b", ".", "p", "y">>,
                   <<"1", "_", "r", ".", "t", "x", "t">>,
                   <<"2", "_", "a", ".", "p", "y">>>>
    /\ out = Some(<<"ok", <<path_join(ProblemDir, <<"2", "_", "a", ".", "p", "y">>),
                           path_join(ProblemDir, <<"1", "0", "_", "b", ".", "p", "y">>)>>>>)

\* Two fences that do not overlap.
TwoFences(s) ==
    \E i, j \in 1..Len(s) : FenceAt(s, i) /\ FenceAt(s, j) /\ j >= i + 3

\* The text between the first fence and the next fence after it.
FirstBlock(s) ==
    LET i == CHOOSE a \in 1..Len(s) :
                 FenceAt(s, a) /\ \A b \in 1..Len(s) : FenceAt(s, b) => a <= b
        j == CHOOSE a \in (i + 3)..Len(s) :
                 FenceAt(s, a) /\ \A b \in (i + 3)..Len(s) : FenceAt(s, b) => a <= b
    IN  SubSeq(s, i + 3, j - 1)

\* The block is tagged with lang: its first word is lang.
Tagged(body, lang) ==
    /\ startswith(body, lang)
    /\ Len(body) = Len(lang) \/ IsSpace(body[Len(lang) + 1])

ExtractDone == fn = "extract_first_code" /\ pc = "done"

\* C9: extract_first_code returns None exactly when the trimmed output
\* holds no two fences; otherwise the trimmed text of the first block, with
\* the leading lang removed (and the rest trimmed) exactly when the block is
\* tagged with lang, and unchanged otherwise.
C9_ExtractFirstBlock ==
    ExtractDone =>
        LET s == strip(output_string)
            body == strip(FirstBlock(s))
        IN  IF ~TwoFences(s) THEN Get(out) = NoneV
            ELSE Get(out) =
                    Some(IF Tagged(body, code_language_type)
                         THEN strip(SubSeq(body, Len(code_language_type) + 1, Len(body)))
                         ELSE body)

\* What does hold: the same with "tagged" read as "starts with the
\* characters of lang", whatever follows them.
C9_RemovesLeadingLangText ==
    ExtractDone =>
        LET s == strip(output_string)
            body == strip(FirstBlock(s))
        IN  IF ~TwoFences(s) THEN Get(out) = NoneV
            ELSE Get(out) =
                    Some(IF startswith(body, code_language_type)
                         THEN strip(SubSeq(body, Len(code_language_type) + 1, Len(body)))
                         ELSE body)

\* The position in the log of the latest evaluation before position i.
LastEvalBefore(i) ==
    LET evals == {k \in 1..(i - 1) : log[k].ev = "eval"}
    IN  CHOOSE k \in evals : \A m \in evals : m <= k

\* The code of the latest request before position i.
LastCodeBefore(i) ==
    LET reqs == {k \in 1..(i - 1) : log[k].ev = "llm"}
    IN  log[CHOOSE k \in reqs : \A m \in reqs : m <= k].code

FixRequests == {i \in 1..Len(log) : log[i].ev = "llm" /\ log[i].turn >= 0}

\* C11: every fix request of run_multiturn passes the most recently
\* generated source, and the metadata it passes is the one set for the most
\* recent evaluation (the one that produced the current failing result), not
\* the one of an earlier turn.
C11_FixUsesLatestSourceAndMetadata ==
    \A i \in FixRequests :
        /\ log[i].src = LastCodeBefore(i)
        /\ log[i].src = log[LastEvalBefore(i)].src
        /\ log[i].metadata = metadata
        /\ metadata_of = Some(log[LastEvalBefore(i)].turn)

\* What does hold: the source is the most recent one; the metadata is the
\* one run set for the first evaluation, at every turn, and it is None.
C11_FixUsesLatestSourceAndRunMetadata ==
    \A i \in FixRequests :
        /\ log[i].src = LastCodeBefore(i)
        /\ log[i].src = log[LastEvalBefore(i)].src
        /\ log[i].metadata = metadata
        /\ metadata_of = Some(-1)
        /\ log[i].metadata = NoneV

EvalsReturned == {k \in 1..Len(log) : log[k].ev = "eval" /\ ~IsNone(log[k].res)}

\* The first evaluation whose result no other evaluation's result beats.
FirstBestEval ==
    CHOOSE k \in EvalsReturned :
        /\ \A m \in EvalsReturned : Rank(Get(log[m].res)) <= Rank(Get(log[k].res))
        /\ \A m \in EvalsReturned :
               Rank(Get(log[m].res)) = Rank(Get(log[k].res)) => k <= m

\* C12: whenever run_multiturn tracks a best result, best_custom_cuda is the
\* source whose evaluation produced best_result (the first evaluation that
\* reached the best rank: a turn that does not improve on it replaces
\* neither), and the pair returned is that source with that result.
C12_BestSourceMatchesBestResult ==
    (fn = "run_multiturn" /\ ~IsNone(best_result)) =>
        /\ best_result = log[FirstBestEval].res
        /\ best_custom_cuda = log[FirstBestEval].src
        /\ (pc = "done" => ret = Some(<<log[FirstBestEval].src, log[FirstBestEval].res>>))

C12_Witness ==
    /\ fn = "run_multiturn"
    /\ pc = "done"
    /\ Cardinality(EvalsReturned) >= 3
    /\ FirstBestEval # 2
    /\ log[FirstBestEval].turn >= 0
    /\ best_custom_cuda # custom_cuda
    /\ best_custom_cuda = log[FirstBestEval].src
    /\ Rank(Get(result)) < Rank(Get(best_result))

\* Whatever the evaluator returns, the best pair is a source together with
\* the result of one of its evaluations.
C12_BestPairWasEvaluated ==
    (fn = "run_multiturn" /\ ~IsNone(best_result)) =>
        \E k \in EvalsReturned :
            best_result = log[k].res /\ best_custom_cuda = log[k].src

====
